---- MODULE Spec2Model ----
(***************************************************************************)
(* Model of streamlit_app.py: the delivery-data loader (load_data), the    *)
(* period aggregator (get_aggregated_data), the KPI calculator             *)
(* (calculate_kpis), the chart builders and the top-level script that      *)
(* filters by date range and displays KPI cards and charts.                *)
(*                                                                         *)
(* Representation.                                                         *)
(*  - A Timestamp is [year, month, day, minute] (minute of the day).       *)
(*  - A Python str is a sequence of one-character strings, so that string  *)
(*    concatenation, formatting and lexicographic order are computed.      *)
(*  - A float that is a quotient is a rational [num, den]; NaN is 0/0.     *)
(*    A value rounded to k decimals is the integer number of 10^-k units   *)
(*    (On_Time_Rate 50.0 is 500 tenths, Avg_Rating 4.25 is 425             *)
(*    hundredths).                                                         *)
(*  - Every cell of a csv row is present; delivery_id is the row number.   *)
(***************************************************************************)
EXTENDS Integers, Sequences, FiniteSets, TLC

VARIABLES
    pc,                 \* position of the script / of the caller
    csv,                \* rows of data/deliveries.csv
    df,                 \* load_data()'s frame
    start_date,         \* sidebar widget values
    end_date,
    time_frame,
    filtered_df,        \* line 251
    kpis,               \* calculate_kpis's dict
    ratios,             \* cost_per_km and deliveries_per_day
    charts,             \* charts built so far, in order
    raised,             \* the exception that ended the run, "" if none
    grouping,           \* argument of a direct get_aggregated_data call
    grouped,            \* its return value
    agg_state,          \* "idle" | "returned" | "raised"
    kpi_state           \* "idle" | "returned"

vars == <<pc, csv, df, start_date, end_date, time_frame, filtered_df, kpis,
          ratios, charts, raised, grouping, grouped, agg_state, kpi_state>>

\* ------------------------------------------------------------------ bounds

\* Longest csv (number of data rows).
MaxRecords == 2

\* ------------------------------------------------------- program constants

\* on_time = delay_minutes <= 15 (load_data).
OnTimeThreshold == 15

\* late deliveries are those with delay_minutes > 15 (calculate_kpis).
LateThreshold == 15

\* first month of the fiscal year (July).
FiscalStartMonth == 7

\* ----------------------------------------------------------------- strings

Digits == <<"0", "1", "2", "3", "4", "5", "6", "7", "8", "9">>

Digit(n) == Digits[n + 1]

\* code point of a character, for str comparison
Ord(c) ==
    CASE c = "-" -> 45
      [] c = "0" -> 48 [] c = "1" -> 49 [] c = "2" -> 50 [] c = "3" -> 51
      [] c = "4" -> 52 [] c = "5" -> 53 [] c = "6" -> 54 [] c = "7" -> 55
      [] c = "8" -> 56 [] c = "9" -> 57
      [] c = "Q" -> 81

RECURSIVE StrLess(_, _)
\* Python's s < t on str: lexicographic by code point, a proper prefix first.
StrLess(s, t) ==
    IF t = <<>> THEN FALSE
    ELSE IF s = <<>> THEN TRUE
    ELSE IF Ord(Head(s)) # Ord(Head(t)) THEN Ord(Head(s)) < Ord(Head(t))
    ELSE StrLess(Tail(s), Tail(t))

RECURSIVE IntToStr(_)
\* str(n) for n >= 0
IntToStr(n) ==
    IF n < 10 THEN <<Digit(n)>> ELSE Append(IntToStr(n \div 10), Digit(n % 10))

\* %Y, %m, %d of strftime (years of a Timestamp have four digits)
Pad4(n) == <<Digit(n \div 1000), Digit((n \div 100) % 10),
             Digit((n \div 10) % 10), Digit(n % 10)>>

Pad2(n) == <<Digit(n \div 10), Digit(n % 10)>>

\* ------------------------------------------------------------------- dates

\* day number of a civil date, 0 = 1970-01-01 (proleptic Gregorian)
DaysFromCivil(y, m, d) ==
    LET yy  == IF m <= 2 THEN y - 1 ELSE y
        era == yy \div 400
        yoe == yy - era * 400
        mp  == IF m > 2 THEN m - 3 ELSE m + 9
        doy == (153 * mp + 2) \div 5 + d - 1
        doe == yoe * 365 + yoe \div 4 - yoe \div 100 + doy
    IN  era * 146097 + doe - 719468

\* civil date [year, month, day] of a day number
CivilFromDays(z0) ==
    LET z   == z0 + 719468
        era == z \div 146097
        doe == z - era * 146097
        yoe == (doe - doe \div 1460 + doe \div 36524 - doe \div 146096) \div 365
        doy == doe - (365 * yoe + yoe \div 4 - yoe \div 100)
        mp  == (5 * doy + 2) \div 153
        d   == doy - (153 * mp + 2) \div 5 + 1
        m   == IF mp < 10 THEN mp + 3 ELSE mp - 9
        y   == yoe + era * 400 + (IF m <= 2 THEN 1 ELSE 0)
    IN  [year |-> y, month |-> m, day |-> d]

\* Timestamp.date(): the calendar date, time of day dropped
DateOf(ts) == [year |-> ts.year, month |-> ts.month, day |-> ts.day]

\* datetime.date <= datetime.date: by (year, month, day)
DateLE(a, b) ==
    \/ a.year < b.year
    \/ a.year = b.year /\ a.month < b.month
    \/ a.year = b.year /\ a.month = b.month /\ a.day <= b.day

\* Timestamp order: minutes since the epoch
TsMinutes(ts) == DaysFromCivil(ts.year, ts.month, ts.day) * 1440 + ts.minute

\* dt.to_period('M').astype(str): "YYYY-MM"
MonthYear(ts) == Pad4(ts.year) \o <<"-">> \o Pad2(ts.month)

\* dt.to_period('W') is the Monday..Sunday week holding ts; start_time is its
\* Monday at 00:00, formatted '%Y-%m-%d'.
WeekYear(ts) ==
    LET n      == DaysFromCivil(ts.year, ts.month, ts.day)
        monday == n - ((n + 3) % 7)
        s      == CivilFromDays(monday)
    IN  Pad4(s.year) \o <<"-">> \o Pad2(s.month) \o <<"-">> \o Pad2(s.day)

\* ------------------------------------------------------------- load_data

\* the boundary month taken into the previous fiscal year (> for >=)
FiscalYearShifted(ts) == IF ts.month > FiscalStartMonth THEN ts.year ELSE ts.year - 1

\* lambda x: x.year if x.month >= 7 else x.year - 1
FiscalYear(ts) == IF ts.month >= FiscalStartMonth THEN ts.year ELSE ts.year - 1

\* fiscal_quarter(month)
FiscalQuarter(month) ==
    IF month \in {7, 8, 9} THEN <<"Q", "1">>
    ELSE IF month \in {10, 11, 12} THEN <<"Q", "2">>
    ELSE IF month \in {1, 2, 3} THEN <<"Q", "3">>
    ELSE <<"Q", "4">>

\* the columns load_data adds to one row
Enrich(row) ==
    [delivery_id     |-> row.delivery_id,
     date            |-> row.date,
     delay_minutes   |-> row.delay_minutes,
     delivery_cost   |-> row.delivery_cost,
     fuel_cost       |-> row.fuel_cost,
     distance_km     |-> row.distance_km,
     customer_rating |-> row.customer_rating,
     on_time         |-> row.delay_minutes <= OnTimeThreshold,
     year            |-> row.date.year,
     month           |-> row.date.month,
     month_year      |-> MonthYear(row.date),
     week_year       |-> WeekYear(row.date),
     fiscal_year     |-> FiscalYear(row.date),
     fiscal_quarter  |-> FiscalQuarter(row.date.month)]

\* load_data(): every row enriched, order kept
load_data(rows) == [i \in 1..Len(rows) |-> Enrich(rows[i])]

\* ------------------------------------------------------------- arithmetic

RECURSIVE SumSeq(_)
\* Series.sum(): 0 on an empty series
SumSeq(s) == IF s = <<>> THEN 0 ELSE Head(s) + SumSeq(Tail(s))

NaN == [num |-> 0, den |-> 0]

\* pd.isna(x)
IsNa(q) == q.den = 0

\* Series.mean(): NaN on an empty series
Mean(s) == [num |-> SumSeq(s), den |-> Len(s)]

Pow10(k) == CASE k = 0 -> 1 [] k = 1 -> 10 [] k = 2 -> 100

\* round(q, k) / Series.round(k) of a number q = num/den (den > 0): the
\* nearest multiple of 10^-k, a tie going to the even one; the result is
\* the number of 10^-k units.
Round(q, k) ==
    LET n == 2 * q.num * Pow10(k)
        d == 2 * q.den
        f == n \div d
        r == n - f * d
    IN  IF r < q.den THEN f
        ELSE IF r > q.den THEN f + 1
        ELSE IF f % 2 = 0 THEN f ELSE f + 1

\* a whole number as a quotient
Whole(n) == [num |-> n, den |-> 1]

\* ---------------------------------------------------- get_aggregated_data

agg_dict ==
    [delivery_id     |-> "count",
     on_time         |-> "mean",
     delay_minutes   |-> "mean",
     delivery_cost   |-> "sum",
     fuel_cost       |-> "sum",
     distance_km     |-> "sum",
     customer_rating |-> "mean"]

col_rename ==
    [delivery_id     |-> "Total_Deliveries",
     on_time         |-> "On_Time_Rate",
     delay_minutes   |-> "Avg_Delay",
     delivery_cost   |-> "Total_Cost",
     fuel_cost       |-> "Total_Fuel",
     distance_km     |-> "Total_Distance",
     customer_rating |-> "Avg_Rating"]

group_keys ==
    [Daily     |-> <<"date">>,
     Weekly    |-> <<"week_year">>,
     Monthly   |-> <<"month_year">>,
     Quarterly |-> <<"fiscal_year", "fiscal_quarter">>]

\* a group_keys table that lacks the Quarterly entry
GroupingSupportedNoQuarterly(g) == g \in {"Daily", "Weekly", "Monthly"}

\* grouping in group_keys
GroupingSupported(g) == g \in DOMAIN group_keys

\* the group key of one row: the values of the key columns
KeyOf(g, r) == [k \in 1..Len(group_keys[g]) |-> r[group_keys[g][k]]]

\* order of two values of one key column: Timestamps by time, ints by
\* value, str lexicographically
ColumnLess(col, x, y) ==
    CASE col = "date"        -> TsMinutes(x) < TsMinutes(y)
      [] col = "fiscal_year" -> x < y
      [] OTHER               -> StrLess(x, y)

RECURSIVE KeyLessFrom(_, _, _, _)
KeyLessFrom(cols, a, b, k) ==
    IF k > Len(cols) THEN FALSE
    ELSE IF ColumnLess(cols[k], a[k], b[k]) THEN TRUE
    ELSE IF ColumnLess(cols[k], b[k], a[k]) THEN FALSE
    ELSE KeyLessFrom(cols, a, b, k + 1)

\* order of two group keys: column by column
KeyLess(g, a, b) == KeyLessFrom(group_keys[g], a, b, 1)

RECURSIVE SortKeys(_, _)
\* the keys of a set in ascending order
SortKeys(g, keys) ==
    IF keys = {} THEN <<>>
    ELSE LET least == CHOOSE a \in keys : \A b \in keys \ {a} : KeyLess(g, a, b)
         IN  <<least>> \o SortKeys(g, keys \ {least})

RECURSIVE FirstSeenKeys(_, _, _)
\* the distinct keys of a frame in order of first appearance
FirstSeenKeys(frame, g, seen) ==
    IF frame = <<>> THEN <<>>
    ELSE LET key == KeyOf(g, Head(frame))
         IN  IF key \in seen THEN FirstSeenKeys(Tail(frame), g, seen)
             ELSE <<key>> \o FirstSeenKeys(Tail(frame), g, seen \cup {key})

\* groupby(..., sort=False): groups in order of first appearance
GroupKeysUnsorted(frame, g) == FirstSeenKeys(frame, g, {})

\* df.groupby(keys): the distinct keys of the frame, sorted ascending
\* (groupby's sort=True)
GroupKeys(frame, g) ==
    SortKeys(g, {KeyOf(g, frame[i]) : i \in 1..Len(frame)})

\* the rows of one group, in frame order
GroupRows(frame, g, key) == SelectSeq(frame, LAMBDA r : KeyOf(g, r) = key)

\* one column of a group as numbers (a bool counts 1 or 0 in a mean)
Column(rows, col) ==
    [i \in 1..Len(rows) |->
        IF col = "on_time" THEN (IF rows[i][col] THEN 1 ELSE 0) ELSE rows[i][col]]

\* len(df[df['on_time']])
CountOnTime(rows) == Len(SelectSeq(rows, LAMBDA r : r.on_time))

\* Total_Deliveries taken from the on_time column ('sum' of the flags)
CountOnTimeOnly(rows) == CountOnTime(rows)

\* 'count': the rows of the group with a delivery_id (every row has one)
Count(rows) == Len(rows)

\* .agg(agg_dict) of one column of one group
AggValue(rows, col) ==
    CASE agg_dict[col] = "count" -> Whole(Count(rows))
      [] agg_dict[col] = "sum"   -> Whole(SumSeq(Column(rows, col)))
      [] agg_dict[col] = "mean"  -> Mean(Column(rows, col))

\* the 'Period' column: the two Quarterly key columns joined, else the key
\* column renamed
PeriodOf(g, key) ==
    IF g = "Quarterly" THEN IntToStr(key[1]) \o <<"-">> \o key[2] ELSE key[1]

\* lines 98-103: the percentage conversion and the decimals of each metric
RoundMetric(name, q) ==
    CASE name = "Total_Deliveries" -> q.num
      [] name = "On_Time_Rate"     -> Round([num |-> q.num * 100, den |-> q.den], 1)
      [] name = "Avg_Delay"        -> Round(q, 1)
      [] name = "Total_Cost"       -> Round(q, 2)
      [] name = "Total_Fuel"       -> Round(q, 2)
      [] name = "Total_Distance"   -> Round(q, 1)
      [] name = "Avg_Rating"       -> Round(q, 2)

\* final_columns
final_columns == {"Period"} \cup {col_rename[c] : c \in DOMAIN col_rename}

\* the output row of one group
GroupedRow(frame, g, key) ==
    LET rows == GroupRows(frame, g, key)
    IN  [name \in final_columns |->
            IF name = "Period" THEN PeriodOf(g, key)
            ELSE LET col == CHOOSE c \in DOMAIN col_rename : col_rename[c] = name
                 IN  RoundMetric(name, AggValue(rows, col))]

\* get_aggregated_data(df, grouping) for a supported grouping
get_aggregated_data(frame, g) ==
    LET keys == GroupKeys(frame, g)
    IN  [k \in 1..Len(keys) |-> GroupedRow(frame, g, keys[k])]

\* --------------------------------------------------------- calculate_kpis

\* an on-time rate of 100% when there is no delivery
OnTimeRateVacuous(frame) ==
    IF Len(frame) > 0
    THEN Round([num |-> CountOnTime(frame) * 100, den |-> Len(frame)], 1)
    ELSE 1000

\* on_time_rate, rounded to one decimal
OnTimeRate(frame) ==
    IF Len(frame) > 0
    THEN Round([num |-> CountOnTime(frame) * 100, den |-> Len(frame)], 1)
    ELSE 0

\* a delay of exactly 15 minutes taken as late (>= for >)
IsLateInclusive(r) == r.delay_minutes >= LateThreshold

\* df['delay_minutes'] > 15
IsLate(r) == r.delay_minutes > LateThreshold

\* avg_delay, rounded to one decimal
AvgDelay(frame) ==
    LET avg == Mean(Column(SelectSeq(frame, IsLate), "delay_minutes"))
    IN  IF ~IsNa(avg) THEN Round(avg, 1) ELSE 0

\* avg_rating, rounded to two decimals
AvgRating(frame) ==
    LET avg == Mean(Column(frame, "customer_rating"))
    IN  IF ~IsNa(avg) THEN Round(avg, 2) ELSE 0

calculate_kpis(frame) ==
    [total_deliveries |-> Len(frame),
     on_time_rate     |-> OnTimeRate(frame),
     avg_delay        |-> AvgDelay(frame),
     total_cost       |-> Round(Whole(SumSeq(Column(frame, "delivery_cost"))), 1),
     total_distance   |-> Round(Whole(SumSeq(Column(frame, "distance_km"))), 1),
     avg_rating       |-> AvgRating(frame)]

\* ---------------------------------------------------------- chart builders

\* the columns a chart builder reads from the aggregate
delivery_chart_fields == {"Period", "Total_Deliveries"}

ontime_chart_fields == {"Period", "On_Time_Rate"}

\* pd.melt's id_vars and value_vars in create_cost_chart
cost_chart_id_vars == <<"Period">>

cost_chart_value_vars == <<"total_cost", "total_fuel">>

SeqRange(s) == {s[i] : i \in 1..Len(s)}

cost_chart_fields == SeqRange(cost_chart_id_vars) \cup SeqRange(cost_chart_value_vars)

\* set_index('Period') then reset_index(): the same rows and columns
\* (Period moved to the index and back)
ResetIndex(rows) == rows

\* an Altair chart: its mark, its encoded fields and its data
create_delivery_chart(frame, g) ==
    [mark |-> "bar", x |-> "Period", y |-> "Total_Deliveries",
     data |-> ResetIndex(get_aggregated_data(frame, g))]

create_ontime_chart(frame, g) ==
    [mark |-> "line", x |-> "Period", y |-> "On_Time_Rate",
     data |-> ResetIndex(get_aggregated_data(frame, g))]

\* pd.melt raises KeyError when a value_var is no column of the frame
MeltRaises(columns, value_vars) == ~(SeqRange(value_vars) \subseteq columns)

\* pd.melt: one (id, Metric, Value) row per value_var and input row,
\* value_var by value_var
Melt(rows, id, value_vars) ==
    [k \in 1..(Len(value_vars) * Len(rows)) |->
        LET v == value_vars[((k - 1) \div Len(rows)) + 1]
            r == rows[((k - 1) % Len(rows)) + 1]
        IN  [Period |-> r[id], Metric |-> v, Value |-> r[v]]]

create_cost_chart(frame, g) ==
    [mark |-> "line", x |-> "Period", y |-> "Value",
     data |-> Melt(ResetIndex(get_aggregated_data(frame, g)),
                   cost_chart_id_vars[1], cost_chart_value_vars)]

\* ------------------------------------------------------------- the script

\* the Timestamps themselves compared with midnight of start and of end
FilterTimestamps(frame, start, finish) ==
    SelectSeq(frame, LAMBDA r :
        /\ DaysFromCivil(start.year, start.month, start.day) * 1440 <= TsMinutes(r.date)
        /\ TsMinutes(r.date) <= DaysFromCivil(finish.year, finish.month, finish.day) * 1440)

\* line 251: the rows whose calendar date lies in [start, end]
FilterByDate(frame, start, finish) ==
    SelectSeq(frame, LAMBDA r :
        DateLE(start, DateOf(r.date)) /\ DateLE(DateOf(r.date), finish))

\* filtered_df['date'].dt.date.unique()
UniqueDates(frame) == {DateOf(frame[i].date) : i \in 1..Len(frame)}

\* the Timestamps of a frame that no other precedes / follows
MinDate(frame) ==
    DateOf(CHOOSE t \in {frame[i].date : i \in 1..Len(frame)} :
        \A i \in 1..Len(frame) : TsMinutes(t) <= TsMinutes(frame[i].date))

MaxDate(frame) ==
    DateOf(CHOOSE t \in {frame[i].date : i \in 1..Len(frame)} :
        \A i \in 1..Len(frame) : TsMinutes(t) >= TsMinutes(frame[i].date))

\* options of the "Select time frame" selectbox
time_frame_options == {"Daily", "Weekly", "Monthly", "Quarterly"}

\* ------------------------------------------------------------------ inputs

Ts(y, m, d, minute) == [year |-> y, month |-> m, day |-> d, minute |-> minute]

\* delay, costs, distance and rating of a delivery
Measures(delay, cost, fuel, km, rating) ==
    [delay_minutes |-> delay, delivery_cost |-> cost, fuel_cost |-> fuel,
     distance_km |-> km, customer_rating |-> rating]

RawRow(ts, ms) ==
    [date            |-> ts,
     delay_minutes   |-> ms.delay_minutes,
     delivery_cost   |-> ms.delivery_cost,
     fuel_cost       |-> ms.fuel_cost,
     distance_km     |-> ms.distance_km,
     customer_rating |-> ms.customer_rating]

\* the csv files whose data rows are drawn from a set of rows; delivery_id
\* is the row number
Csvs(rows, maxlen) ==
    UNION {{[i \in 1..n |-> [delivery_id |-> i] @@ f[i]] : f \in [1..n -> rows]}
            : n \in 0..maxlen}

\* dates of every month of two calendar years, at two times of the day
LoadDates ==
    {Ts(y, m, d, t) : y \in {2023, 2024}, m \in 1..12, d \in {1, 28}, t \in {0, 720}}

LoadRows ==
    {RawRow(ts, Measures(delay, 100, 40, 50, 4)) : ts \in LoadDates, delay \in {15, 16}}

\* dates around week, month, calendar-year and fiscal-year boundaries, one
\* calendar day at two times of the day
AggDates ==
    {Ts(2023, 12, 31, 0), Ts(2024, 1, 1, 0), Ts(2024, 3, 2, 0),
     Ts(2024, 6, 30, 0), Ts(2024, 7, 5, 0), Ts(2024, 7, 5, 720),
     Ts(2024, 7, 6, 0), Ts(2025, 1, 1, 0)}

AggMeasures ==
    {Measures(10, 100, 40, 50, 5), Measures(15, 200, 75, 80, 4),
     Measures(20, 300, 90, 125, 2)}

AggRows == {RawRow(ts, ms) : ts \in AggDates, ms \in AggMeasures}

\* groupings a caller may pass, one of them unsupported
CallGroupings == time_frame_options \cup {"Yearly"}

ScriptDates == {Ts(2024, 7, 1, 720), Ts(2024, 7, 2, 0), Ts(2024, 7, 3, 720)}

ScriptMeasures ==
    {Measures(10, 100, 40, 50, 5), Measures(20, 0, 0, 0, 3),
     Measures(15, 250, 60, 75, 4)}

ScriptRows == {RawRow(ts, ms) : ts \in ScriptDates, ms \in ScriptMeasures}

\* the days a date_input can show
CalendarDays == {DateOf(ts) : ts \in ScriptDates}

\* --------------------------------------------------------------- the state

NoDate == [year |-> 0, month |-> 0, day |-> 0]

Idle(rows, position) ==
    /\ pc = position
    /\ csv \in rows
    /\ df = <<>>
    /\ start_date = NoDate
    /\ end_date = NoDate
    /\ time_frame = ""
    /\ filtered_df = <<>>
    /\ kpis = <<>>
    /\ ratios = <<>>
    /\ charts = <<>>
    /\ raised = ""
    /\ grouping = ""
    /\ grouped = <<>>
    /\ agg_state = "idle"
    /\ kpi_state = "idle"

\* the script is about to run on a deliveries.csv
Init == Idle(Csvs(ScriptRows, MaxRecords), "load")

\* line 225: df = load_data()
LoadData ==
    /\ pc = "load"
    /\ df' = load_data(csv)
    /\ pc' = "sidebar"
    /\ UNCHANGED <<csv, start_date, end_date, time_frame, filtered_df, kpis,
                   ratios, charts, raised, grouping, grouped, agg_state, kpi_state>>

\* lines 231-248: the sidebar widgets. min()/max() of an empty column is
\* NaT, whose date() raises; otherwise the user picks both dates between
\* min_date and max_date and one of the four time frames.
SetUpSidebar ==
    /\ pc = "sidebar"
    /\ IF df = <<>>
       THEN /\ raised' = "ValueError"
            /\ pc' = "error"
            /\ UNCHANGED <<start_date, end_date, time_frame>>
       ELSE /\ \E s \in CalendarDays, e \in CalendarDays, tf \in time_frame_options :
                 /\ DateLE(MinDate(df), s) /\ DateLE(s, MaxDate(df))
                 /\ DateLE(MinDate(df), e) /\ DateLE(e, MaxDate(df))
                 /\ start_date' = s
                 /\ end_date' = e
                 /\ time_frame' = tf
            /\ pc' = "filter"
            /\ UNCHANGED raised
    /\ UNCHANGED <<csv, df, filtered_df, kpis, ratios, charts, grouping,
                   grouped, agg_state, kpi_state>>

\* line 251
ApplyFilters ==
    /\ pc = "filter"
    /\ filtered_df' = FilterByDate(df, start_date, end_date)
    /\ pc' = "kpis"
    /\ UNCHANGED <<csv, df, start_date, end_date, time_frame, kpis, ratios,
                   charts, raised, grouping, grouped, agg_state, kpi_state>>

\* line 254
CalculateKpis ==
    /\ pc = "kpis"
    /\ kpis' = calculate_kpis(filtered_df)
    /\ kpi_state' = "returned"
    /\ pc' = "display"
    /\ UNCHANGED <<csv, df, start_date, end_date, time_frame, filtered_df,
                   ratios, charts, raised, grouping, grouped, agg_state>>

\* line 308
cost_per_km(k) ==
    IF k.total_distance > 0
    THEN [num |-> k.total_cost, den |-> k.total_distance]
    ELSE Whole(0)

\* lines 256-321: the KPI cards. The two ratios are computed on the way;
\* an int divided by the int 0 raises ZeroDivisionError.
DisplayKpis ==
    /\ pc = "display"
    /\ LET days == Cardinality(UniqueDates(filtered_df))
       IN  IF days = 0
           THEN /\ ratios' = [cost_per_km |-> cost_per_km(kpis)]
                /\ raised' = "ZeroDivisionError"
                /\ pc' = "error"
           ELSE /\ ratios' = [cost_per_km        |-> cost_per_km(kpis),
                              deliveries_per_day |->
                                  [num |-> kpis.total_deliveries, den |-> days]]
                /\ pc' = "delivery_chart"
                /\ UNCHANGED raised
    /\ UNCHANGED <<csv, df, start_date, end_date, time_frame, filtered_df, kpis,
                   charts, grouping, grouped, agg_state, kpi_state>>

\* line 331
CreateDeliveryChart ==
    /\ pc = "delivery_chart"
    /\ charts' = Append(charts, create_delivery_chart(filtered_df, time_frame))
    /\ pc' = "ontime_chart"
    /\ UNCHANGED <<csv, df, start_date, end_date, time_frame, filtered_df, kpis,
                   ratios, raised, grouping, grouped, agg_state, kpi_state>>

\* line 336
CreateOntimeChart ==
    /\ pc = "ontime_chart"
    /\ charts' = Append(charts, create_ontime_chart(filtered_df, time_frame))
    /\ pc' = "cost_chart"
    /\ UNCHANGED <<csv, df, start_date, end_date, time_frame, filtered_df, kpis,
                   ratios, raised, grouping, grouped, agg_state, kpi_state>>

\* line 341
CreateCostChart ==
    /\ pc = "cost_chart"
    /\ IF MeltRaises(final_columns, cost_chart_value_vars)
       THEN /\ raised' = "KeyError"
            /\ pc' = "error"
            /\ UNCHANGED charts
       ELSE /\ charts' = Append(charts, create_cost_chart(filtered_df, time_frame))
            /\ pc' = "done"
            /\ UNCHANGED raised
    /\ UNCHANGED <<csv, df, start_date, end_date, time_frame, filtered_df, kpis,
                   ratios, grouping, grouped, agg_state, kpi_state>>

\* a widget change reruns the script from the top; load_data's result is
\* cached (st.cache_data)
Rerun ==
    /\ pc \in {"done", "error"}
    /\ pc' = "sidebar"
    /\ start_date' = NoDate
    /\ end_date' = NoDate
    /\ time_frame' = ""
    /\ filtered_df' = <<>>
    /\ kpis' = <<>>
    /\ kpi_state' = "idle"
    /\ ratios' = <<>>
    /\ charts' = <<>>
    /\ raised' = ""
    /\ UNCHANGED <<csv, df, grouping, grouped, agg_state>>

Next ==
    \/ LoadData
    \/ SetUpSidebar
    \/ ApplyFilters
    \/ CalculateKpis
    \/ DisplayKpis
    \/ CreateDeliveryChart
    \/ CreateOntimeChart
    \/ CreateCostChart
    \/ Rerun

Spec == Init /\ [][Next]_vars

\* ------------------------------------------------- the loader on its own

InitLoad == Idle(Csvs(LoadRows, 1), "load")

SpecLoad == InitLoad /\ [][LoadData]_vars

\* ---------------------------------- direct calls of the two pure functions

InitAgg == Idle(Csvs(AggRows, MaxRecords), "load")

\* get_aggregated_data(df, g) called on the loaded frame
CallGetAggregatedData ==
    /\ pc = "sidebar"
    /\ agg_state = "idle"
    /\ \E g \in CallGroupings :
         /\ grouping' = g
         /\ IF ~GroupingSupported(g)
            THEN /\ agg_state' = "raised"
                 /\ raised' = "ValueError"
                 /\ UNCHANGED grouped
            ELSE /\ agg_state' = "returned"
                 /\ grouped' = get_aggregated_data(df, g)
                 /\ UNCHANGED raised
    /\ UNCHANGED <<pc, csv, df, start_date, end_date, time_frame, filtered_df,
                   kpis, ratios, charts, kpi_state>>

\* calculate_kpis(df) called on the loaded frame
CallCalculateKpis ==
    /\ pc = "sidebar"
    /\ kpi_state = "idle"
    /\ kpis' = calculate_kpis(df)
    /\ kpi_state' = "returned"
    /\ UNCHANGED <<pc, csv, df, start_date, end_date, time_frame, filtered_df,
                   ratios, charts, raised, grouping, grouped, agg_state>>

NextAgg == LoadData \/ CallGetAggregatedData \/ CallCalculateKpis

SpecAgg == InitAgg /\ [][NextAgg]_vars

\* ------------------------------------------------------------------ claims

\* value of a str of decimal digits
RECURSIVE ParseInt(_)
ParseInt(s) ==
    IF s = <<>> THEN 0
    ELSE 10 * ParseInt(SubSeq(s, 1, Len(s) - 1)) + (Ord(s[Len(s)]) - 48)

\* the number of the fiscal quarter of a calendar month (the table of the
\* claim)
QuarterNumber(m) ==
    CASE m \in {7, 8, 9} -> 1 [] m \in {10, 11, 12} -> 2
      [] m \in {1, 2, 3} -> 3 [] m \in {4, 5, 6} -> 4

\* C1: every loaded record of month m and calendar year y has fiscal_year y
\* when m is July..December and y-1 otherwise, and fiscal_quarter Q1 for
\* Jul-Sep, Q2 for Oct-Dec, Q3 for Jan-Mar, Q4 for Apr-Jun; the two agree on
\* the July-June boundary: the record's month is month 0..11 of its fiscal
\* year, counted from July, and lies in the quarter the label names.
C1_FiscalDerivation ==
    pc = "sidebar" =>
        \A i \in 1..Len(df) :
            LET m      == csv[i].date.month
                y      == csv[i].date.year
                offset == 12 * (y - df[i].fiscal_year) + m - 7
            IN  /\ m \in 1..12
                /\ df[i].fiscal_year = (IF m \in 7..12 THEN y ELSE y - 1)
                /\ df[i].fiscal_quarter = <<"Q", Digit(QuarterNumber(m))>>
                /\ offset \in 0..11
                /\ QuarterNumber(m) = offset \div 3 + 1

\* a record of July, the first month of a fiscal year, was loaded
C1_Witness ==
    /\ pc = "sidebar"
    /\ Len(df) = 1
    /\ csv[1].date.month = 7
    /\ df[1].fiscal_year = csv[1].date.year
    /\ df[1].fiscal_quarter = <<"Q", "1">>

ClaimKey(g, r) ==
    CASE g = "Daily"     -> <<r.date.year, r.date.month, r.date.day>>
      [] g = "Weekly"    -> r.week_year
      [] g = "Monthly"   -> <<r.date.year, r.date.month>>
      [] g = "Quarterly" -> <<r.fiscal_year, r.fiscal_quarter>>

\* C3: get_aggregated_data emits one row per bucket, two records sharing a
\* bucket exactly when they share the calendar date (Daily, whatever the
\* time of day), the week start (Weekly), the month (Monthly) or the fiscal
\* year and quarter (Quarterly); a Quarterly label is
\* "{fiscal_year}-{fiscal_quarter}" and the labels of one output differ.
C3_OneRowPerBucket ==
    agg_state = "returned" =>
        /\ Len(grouped) = Cardinality({ClaimKey(grouping, df[i]) : i \in 1..Len(df)})
        /\ \A a, b \in 1..Len(grouped) : a # b => grouped[a].Period # grouped[b].Period
        /\ grouping = "Quarterly" =>
               {grouped[k].Period : k \in 1..Len(grouped)} =
               {IntToStr(df[i].fiscal_year) \o <<"-">> \o df[i].fiscal_quarter
                    : i \in 1..Len(df)}

\* C4: no ratio of the KPI display raises on a zero denominator: once the
\* KPI cards are shown, no ZeroDivisionError was raised and both ratios are
\* defined, and they are zero when the date range retained no record.
C4_RatiosNeverRaise ==
    (kpi_state = "returned" /\ pc # "display") =>
        /\ raised # "ZeroDivisionError"
        /\ DOMAIN ratios = {"cost_per_km", "deliveries_per_day"}
        /\ filtered_df = <<>> =>
               /\ kpis.on_time_rate = 0
               /\ ratios.cost_per_km = Whole(0)
               /\ ratios.deliveries_per_day.num = 0

\* C5: calculate_kpis on an empty record set returns zero for every field.
C5_EmptyKpis ==
    (kpi_state = "returned" /\ filtered_df = <<>>) =>
        kpis = [total_deliveries |-> 0, on_time_rate |-> 0, avg_delay |-> 0,
                total_cost |-> 0, total_distance |-> 0, avg_rating |-> 0]

\* the date range retained none of the loaded records and the KPIs were
\* calculated
C5_Witness ==
    /\ kpi_state = "returned"
    /\ df # <<>>
    /\ filtered_df = <<>>
    /\ kpis.total_deliveries = 0

\* C6: get_aggregated_data raises ValueError exactly when the grouping is
\* none of Daily, Weekly, Monthly, Quarterly, and then returns nothing (no
\* default grouping is aggregated); on an empty frame it returns no rows.
C6_UnsupportedGrouping ==
    agg_state # "idle" =>
        /\ agg_state = "raised" <=>
               grouping \notin {"Daily", "Weekly", "Monthly", "Quarterly"}
        /\ agg_state = "raised" => (raised = "ValueError" /\ grouped = <<>>)
        /\ agg_state = "returned" => raised = ""
        /\ (agg_state = "returned" /\ df = <<>>) => grouped = <<>>

\* "Yearly" was asked for on a frame with records
C6_Witness ==
    /\ agg_state = "raised"
    /\ grouping = "Yearly"
    /\ df # <<>>

\* the records with delay_minutes above 15
LateRecords == {i \in 1..Len(df) : df[i].delay_minutes > 15}

RECURSIVE SumDelays(_)
SumDelays(S) ==
    IF S = {} THEN 0
    ELSE LET i == CHOOSE j \in S : TRUE
         IN  df[i].delay_minutes + SumDelays(S \ {i})

\* |a - b|
Dist(a, b) == IF a >= b THEN a - b ELSE b - a

\* C7: the KPI avg_delay is the mean delay of exactly the records with
\* delay_minutes > 15 (to the nearest tenth), 0 when there is none, while a
\* period's Avg_Delay is the mean over all its records: for two records
\* with delays 10 and 20 in one fiscal quarter the KPIs are avg_delay 20.0
\* and on_time_rate 50.0 and the Quarterly row has Avg_Delay 15.0,
\* On_Time_Rate 50.0 and Total_Deliveries 2.
C7_LateOnlyAvgDelay ==
    /\ kpi_state = "returned" =>
           IF LateRecords = {} THEN kpis.avg_delay = 0
           ELSE 2 * Dist(kpis.avg_delay * Cardinality(LateRecords),
                         10 * SumDelays(LateRecords)) <= Cardinality(LateRecords)
    /\ (/\ Len(df) = 2
        /\ {df[1].delay_minutes, df[2].delay_minutes} = {10, 20}
        /\ df[1].fiscal_year = df[2].fiscal_year
        /\ df[1].fiscal_quarter = df[2].fiscal_quarter) =>
           /\ kpi_state = "returned" =>
                  (kpis.avg_delay = 200 /\ kpis.on_time_rate = 500)
           /\ (agg_state = "returned" /\ grouping = "Quarterly") =>
                  /\ Len(grouped) = 1
                  /\ grouped[1].Avg_Delay = 150
                  /\ grouped[1].On_Time_Rate = 500
                  /\ grouped[1].Total_Deliveries = 2

\* both functions ran on a record on time by the exact threshold and a late
\* one
C7_Witness ==
    /\ kpi_state = "returned"
    /\ agg_state = "returned"
    /\ grouping = "Quarterly"
    /\ Len(df) = 2
    /\ {df[1].delay_minutes, df[2].delay_minutes} = {15, 20}
    /\ kpis.avg_delay = 200
    /\ Len(grouped) = 1
    /\ grouped[1].Avg_Delay = 175

\* the point in time a Period label names, per mode: minutes, days, months
\* or fiscal quarters
Chronology(g, period) ==
    CASE g = "Daily"     -> TsMinutes(period)
      [] g = "Weekly"    -> DaysFromCivil(ParseInt(SubSeq(period, 1, 4)),
                                          ParseInt(SubSeq(period, 6, 7)),
                                          ParseInt(SubSeq(period, 9, 10)))
      [] g = "Monthly"   -> 12 * ParseInt(SubSeq(period, 1, 4))
                                + ParseInt(SubSeq(period, 6, 7))
      [] g = "Quarterly" -> 4 * ParseInt(SubSeq(period, 1, 4))
                                + ParseInt(SubSeq(period, 7, 7))

\* C8: the rows get_aggregated_data returns are in strictly ascending
\* chronological order of their period, whatever the order of the input:
\* Quarterly by fiscal year and then quarter number, Weekly and Monthly by
\* the date their label names.
C8_ChronologicalOrder ==
    agg_state = "returned" =>
        \A k \in 1..(Len(grouped) - 1) :
            Chronology(grouping, grouped[k].Period)
                < Chronology(grouping, grouped[k + 1].Period)

\* the input held a record of fiscal 2024 before one of fiscal 2023-Q4 and
\* the output has 2023-Q4 first
C8_Witness ==
    /\ agg_state = "returned"
    /\ grouping = "Quarterly"
    /\ Len(df) = 2
    /\ df[1].fiscal_year = 2024
    /\ Len(grouped) = 2
    /\ grouped[1].Period = <<"2", "0", "2", "3", "-", "Q", "4">>
    /\ grouped[2].Period = <<"2", "0", "2", "4", "-", "Q", "1">>

DayNumber(d) == DaysFromCivil(d.year, d.month, d.day)

\* the loaded records dated within the selected range
Retained ==
    {i \in 1..Len(df) :
        /\ DayNumber(start_date) <= DayNumber(df[i].date)
        /\ DayNumber(df[i].date) <= DayNumber(end_date)}

\* C9: the date-range filter keeps exactly the records whose calendar date
\* d has start <= d <= end, whatever their time of day, with their values
\* and in their order.
C9_InclusiveDateFilter ==
    (start_date # NoDate /\ pc # "filter") =>
        /\ Len(filtered_df) = Cardinality(Retained)
        /\ \A k \in 1..Len(filtered_df) :
               \E i \in Retained :
                   /\ Cardinality({j \in Retained : j <= i}) = k
                   /\ filtered_df[k] = df[i]

\* a record at noon of the end date was kept and an earlier record dropped
C9_Witness ==
    /\ start_date # NoDate
    /\ pc # "filter"
    /\ Len(df) = 2
    /\ Len(filtered_df) = 1
    /\ DateOf(filtered_df[1].date) = end_date
    /\ DateOf(filtered_df[1].date) = start_date
    /\ filtered_df[1].date.minute = 720

\* C10: every chart builder reads only fields the aggregate has: the
\* fields of each chart built are columns of get_aggregated_data's output
\* and no builder fails on a missing column.
C10_ChartsReadAggregateFields ==
    /\ \A k \in 1..Len(charts) : {charts[k].x, charts[k].y} \subseteq final_columns
    /\ raised # "KeyError"

====
